---- MODULE Spec2Model ----
(***************************************************************************)
(* Model of the two-stage entity pipeline of zhanwenchen/hgn:              *)
(*   scripts/0_build_db.py   - parallel corpus ingestion into sqlite       *)
(*   scripts/2_extract_ner.py - title/context mention extraction and       *)
(*                              context NER alignment                      *)
(* Strings are sequences of code points; a code point is written as a      *)
(* one-token TLA+ string ("a", "eacute", "Idot", ...).                     *)
(***************************************************************************)
EXTENDS Integers, Sequences, FiniteSets, TLC

(***************************************************************************)
(* Bounds of the model.                                                    *)
(***************************************************************************)
MaxFiles == 2
MaxLines == 2
MaxWorkers == 2
MaxRuns == 2
MaxSentLen == 2
MaxTitleLen == 4
MaxSents == 2
MaxNer == 2

VARIABLES
    \* ---- 0_build_db.py: the file system at save_path ----
    destKind,     \* "absent" | "file" | "dir"
    tableExists,  \* the file holds the table `documents`
    durable,      \* committed rows of `documents`
    \* ---- 0_build_db.py: one store_contents process ----
    pc,           \* "idle" | "pool" | "done" | "failed"
    err,          \* exception that ended the run, "none" when there is none
    table,        \* rows of `documents` as seen through conn (committed or not)
    files,        \* list(iter_files(data_path)): per file the lines read from it
    task,         \* per file: "queued" | "running" | "finished" | "consumed"
    outq,         \* results in completion order, not yet yielded by imap_unordered
    order,        \* files whose result the main loop has received, in that order
    count,        \* progress counter
    commits,      \* conn.commit() calls of this run
    numWorkers,   \* size of the Pool
    runs,         \* store_contents invocations so far
    \* ---- 2_extract_ner.py: one call of extract_ner_from_titles ----
    sent,         \* the sentence (or question) searched
    titles,       \* the titles of the case, in context order
    context_ners, \* [given, docs]: the context NER pool, given = FALSE for None
    matched,      \* the returned list of mentions
    xpc,          \* "call" | "returned"
    \* ---- 2_extract_ner.py: extract_context_ner over one case ----
    case_context, \* case['context']: list of [title, sents]
    ner_data,     \* title -> text_ner (per sentence, the tagger's mentions)
    context_guid2ner, \* the case's entry of the result
    apc           \* "call" | "emitted" | "failed"

ingestVars == <<destKind, tableExists, durable, pc, err, table, files, task,
                outq, order, count, commits, numWorkers, runs>>

extractVars == <<sent, titles, context_ners, matched, xpc>>

alignVars == <<case_context, ner_data, context_guid2ner, apc>>

vars == <<ingestVars, extractVars, alignVars>>

(***************************************************************************)
(* Small sequence helpers.                                                 *)
(***************************************************************************)
SeqsUpTo(S, n) == UNION {[1..k -> S] : k \in 0..n}

RECURSIVE Flatten(_)
Flatten(ss) == IF ss = << >> THEN << >> ELSE Head(ss) \o Flatten(Tail(ss))

(***************************************************************************)
(* unicodedata.normalize('NFD', s): canonical decomposition.  The         *)
(* precomposed e-acute decomposes to e followed by the combining acute.    *)
(***************************************************************************)
Decompose(cp) == IF cp = "eacute" THEN <<"e", "acute">> ELSE <<cp>>

\* variant: ids stored as read, not normalized
NFDIdentity(s) == s

RECURSIVE NFD(_)
NFD(s) == IF s = << >> THEN << >> ELSE Decompose(Head(s)) \o NFD(Tail(s))

(***************************************************************************)
(* Lines of a batch file.                                                  *)
(*   doc     - a JSON record kept by PREPROCESS_FN (or no filter at all)   *)
(*   dropped - a record for which the filter returns None / empty          *)
(*   badline - a line json_loads (or a field lookup) fails on              *)
(***************************************************************************)
Doc(id, nText, nLinks) ==
    [kind |-> "doc", id |-> id, nText |-> nText, nLinks |-> nLinks]

Dropped == [kind |-> "dropped", id |-> << >>, nText |-> 0, nLinks |-> 0]

BadLine == [kind |-> "badline", id |-> << >>, nText |-> 0, nLinks |-> 0]

Lines ==
    { Doc(<<"eacute">>, 1, 1),        \* precomposed id
      Doc(<<"e", "acute">>, 2, 2),    \* canonically equivalent, byte-distinct id
      Doc(<<"a">>, 1, 1),
      Doc(<<"b">>, 1, 2),             \* len(text) # len(text_with_links)
      Dropped,
      BadLine }

Row(doc) == [id |-> NFD(doc.id), sent_num |-> doc.nText]

(***************************************************************************)
(* get_contents(filename): the rows of one batch, or the exception raised. *)
(***************************************************************************)
\* variant: get_contents without the assert of line 88
RECURSIVE GetContentsNoAssert(_, _)
GetContentsNoAssert(lines, documents) ==
    IF lines = << >> THEN [err |-> "none", docs |-> documents]
    ELSE LET doc == Head(lines) IN
         IF doc.kind = "badline" THEN [err |-> "worker", docs |-> << >>]
         ELSE IF doc.kind = "dropped" THEN GetContentsNoAssert(Tail(lines), documents)
         ELSE GetContentsNoAssert(Tail(lines), Append(documents, Row(doc)))

RECURSIVE GetContentsFrom(_, _)
GetContentsFrom(lines, documents) ==
    IF lines = << >> THEN [err |-> "none", docs |-> documents]
    ELSE LET doc == Head(lines) IN
         IF doc.kind = "badline" THEN [err |-> "worker", docs |-> << >>]
         ELSE IF doc.kind = "dropped" THEN GetContentsFrom(Tail(lines), documents)
         ELSE IF doc.nText # doc.nLinks THEN [err |-> "assert", docs |-> << >>]
         ELSE GetContentsFrom(Tail(lines), Append(documents, Row(doc)))

get_contents(lines) == GetContentsFrom(lines, << >>)

(***************************************************************************)
(* c.executemany("INSERT INTO documents VALUES (...)", pairs): rows are    *)
(* inserted one statement at a time; the first PRIMARY KEY conflict raises *)
(* IntegrityError and leaves the rows inserted before it in place.         *)
(***************************************************************************)
HasKey(tbl, id) == \E i \in 1..Len(tbl) : tbl[i].id = id

RECURSIVE executemany(_, _)
executemany(tbl, pairs) ==
    IF pairs = << >> THEN [ok |-> TRUE, rows |-> tbl]
    ELSE IF HasKey(tbl, Head(pairs).id) THEN [ok |-> FALSE, rows |-> tbl]
    ELSE executemany(Append(tbl, Head(pairs)), Tail(pairs))

(***************************************************************************)
(* store_contents, lines 113-122: the precondition check, connect,         *)
(* CREATE TABLE, list(iter_files(data_path)) and the creation of the Pool. *)
(* rootKind is what data_path is; nf the number of files found under it.   *)
(***************************************************************************)
NoRun(p, e) ==
    /\ pc' = p
    /\ err' = e
    /\ files' = << >>
    /\ task' = << >>
    /\ outq' = << >>
    /\ order' = << >>
    /\ count' = 0
    /\ commits' = 0

Reject(e) ==
    /\ NoRun("failed", e)
    /\ UNCHANGED <<destKind, tableExists, durable, table>>

OpenAndStart(rootKind, nf) ==
    \* connect creates the file, CREATE TABLE is autocommitted
    /\ destKind' = "file"
    /\ tableExists' = TRUE
    /\ durable' = << >>
    /\ table' = << >>
    /\ IF rootKind = "invalid"
       THEN \* iter_files: RuntimeError('Path %s is invalid')
            NoRun("failed", "path")
       ELSE /\ (rootKind = "file") => (nf = 1)
            /\ pc' = "pool"
            /\ err' = "none"
            /\ files' = [i \in 1..nf |-> << >>]
            /\ task' = [i \in 1..nf |-> "queued"]
            /\ outq' = << >>
            /\ order' = << >>
            /\ count' = 0
            /\ commits' = 0

\* variant: store_contents without the os_path_isfile check of line 113
StartRunOverwriting(rootKind, nf, nw) ==
    /\ pc = "idle"
    /\ runs < MaxRuns
    /\ runs' = runs + 1
    /\ numWorkers' = nw
    /\ IF destKind = "dir" THEN Reject("open") ELSE OpenAndStart(rootKind, nf)

StartRun(rootKind, nf, nw) ==
    /\ pc = "idle"
    /\ runs < MaxRuns
    /\ runs' = runs + 1
    /\ numWorkers' = nw
    /\ IF destKind = "file"
       THEN \* os_path_isfile(save_path): RuntimeError
            Reject("exists")
       ELSE IF destKind = "dir"
       THEN \* sqlite3_connect on a directory: OperationalError
            Reject("open")
       ELSE OpenAndStart(rootKind, nf)

(***************************************************************************)
(* A worker of the Pool takes the next queued file and opens it.  The      *)
(* file's lines are fixed on disk and read exactly once per run, so they   *)
(* are drawn when the worker opens the file.                               *)
(***************************************************************************)
Running == {i \in 1..Len(task) : task[i] = "running"}

\* lines read so far in this run (bounded by MaxLines)
LinesRead == Len(Flatten(files))

WorkerTake(i) ==
    /\ pc = "pool"
    /\ i \in 1..Len(task)
    /\ task[i] = "queued"
    /\ \A j \in 1..(i - 1) : task[j] # "queued"
    /\ Cardinality(Running) < numWorkers
    /\ \E lines \in SeqsUpTo(Lines, MaxLines - LinesRead) :
           files' = [files EXCEPT ![i] = lines]
    /\ task' = [task EXCEPT ![i] = "running"]
    /\ UNCHANGED <<destKind, tableExists, durable, pc, err, table, outq,
                   order, count, commits, numWorkers, runs>>

(***************************************************************************)
(* The worker finishes get_contents(file) and hands the result (rows or    *)
(* exception) back to the parent.  Workers never touch conn.               *)
(***************************************************************************)
\* variant: the worker inserts its rows itself
WorkerFinishWrites(i) ==
    /\ pc = "pool"
    /\ i \in 1..Len(task)
    /\ task[i] = "running"
    /\ task' = [task EXCEPT ![i] = "finished"]
    /\ outq' = Append(outq, i)
    /\ table' = table \o get_contents(files[i]).docs
    /\ UNCHANGED <<destKind, tableExists, durable, pc, err, files,
                   order, count, commits, numWorkers, runs>>

WorkerFinish(i) ==
    /\ pc = "pool"
    /\ i \in 1..Len(task)
    /\ task[i] = "running"
    /\ task' = [task EXCEPT ![i] = "finished"]
    /\ outq' = Append(outq, i)
    /\ UNCHANGED <<destKind, tableExists, durable, pc, err, table, files,
                   order, count, commits, numWorkers, runs>>

(***************************************************************************)
(* store_contents, lines 124-127: one iteration of the loop over           *)
(* imap_unordered: the next completed batch is yielded (or its exception   *)
(* re-raised) and its rows are inserted.                                   *)
(***************************************************************************)
MainNext ==
    /\ pc = "pool"
    /\ outq # << >>
    /\ LET i == Head(outq)
           res == get_contents(files[i])
           ins == executemany(table, res.docs)
       IN /\ outq' = Tail(outq)
          /\ task' = [task EXCEPT ![i] = "consumed"]
          /\ order' = Append(order, i)
          /\ IF res.err # "none"
             THEN /\ pc' = "failed"
                  /\ err' = res.err
                  /\ UNCHANGED <<table, count>>
             ELSE /\ count' = count + Len(res.docs)
                  /\ table' = ins.rows
                  /\ IF ins.ok
                     THEN UNCHANGED <<pc, err>>
                     ELSE /\ pc' = "failed"
                          /\ err' = "dupkey"
    /\ UNCHANGED <<destKind, tableExists, durable, files, commits,
                   numWorkers, runs>>

(***************************************************************************)
(* store_contents, lines 128-131: the loop is exhausted, commit and close. *)
(***************************************************************************)
\* variant: commit as soon as no result is waiting
CommitEarly ==
    /\ pc = "pool"
    /\ outq = << >>
    /\ durable' = table
    /\ commits' = commits + 1
    /\ pc' = "done"
    /\ UNCHANGED <<destKind, tableExists, err, table, files, task, outq,
                   order, count, numWorkers, runs>>

Commit ==
    /\ pc = "pool"
    /\ \A i \in 1..Len(task) : task[i] = "consumed"
    /\ durable' = table
    /\ commits' = commits + 1
    /\ pc' = "done"
    /\ UNCHANGED <<destKind, tableExists, err, table, files, task, outq,
                   order, count, numWorkers, runs>>

(***************************************************************************)
(* The process ends.  After an exception conn is dropped without commit,   *)
(* which rolls the open transaction back: what remains is what is on disk. *)
(***************************************************************************)
Exit ==
    /\ pc \in {"done", "failed"}
    /\ pc' = "idle"
    /\ table' = durable
    /\ UNCHANGED <<destKind, tableExists, durable, err, files, task, outq,
                   order, count, commits, numWorkers, runs>>

(***************************************************************************)
(* 2_extract_ner.py.  str.lower(): most code points map to one code point; *)
(* the capital I with dot above lowers to i followed by a combining dot.   *)
(***************************************************************************)
LowerCp(cp) ==
    IF cp = "A" THEN <<"a">>
    ELSE IF cp = "Idot" THEN <<"i", "dotabove">>
    ELSE <<cp>>

RECURSIVE lower(_)
lower(s) == IF s = << >> THEN << >> ELSE LowerCp(Head(s)) \o lower(Tail(s))

\* str.find(sub): lowest 0-based index of sub, -1 when absent
find(s, sub) ==
    LET hits == {i \in 0..(Len(s) - Len(sub)) :
                    SubSeq(s, i + 1, i + Len(sub)) = sub}
    IN IF hits = {} THEN -1 ELSE CHOOSE i \in hits : \A j \in hits : i <= j

\* s[a:b] for 0 <= a <= b: slicing clamps to the length of s
Slice(s, a, b) ==
    LET hi == IF b < Len(s) THEN b ELSE Len(s)
    IN IF a + 1 > hi THEN << >> ELSE SubSeq(s, a + 1, hi)

\* re_sub(r' \(.*?\)$', '', title): the leftmost " (" from which the string
\* runs to a closing ")" at its end is cut off, together with all after it
StripParen(title) ==
    LET n == Len(title)
        starts == {i \in 1..(n - 2) :
                      title[i] = " " /\ title[i + 1] = "(" /\ title[n] = ")"}
    IN IF starts = {} THEN title
       ELSE SubSeq(title, 1, (CHOOSE i \in starts : \A j \in starts : i <= j) - 1)

Mention(text, start, end, label) ==
    [text |-> text, start |-> start, end |-> end, label |-> label]

\* variant: DATE not commented out of the allow-list
ent_typeWithDates ==
    {"PERSON", "NORP", "FAC", "ORG", "GPE", "LOC", "PRODUCT", "EVENT",
     "WORK_OF_ART", "LAW", "LANGUAGE", "DATE"}

ent_type ==
    {"PERSON", "NORP", "FAC", "ORG", "GPE", "LOC", "PRODUCT", "EVENT",
     "WORK_OF_ART", "LAW", "LANGUAGE"}

\* lines 21-27: the texts of the context entities of an allowed type
Candidates(pool) ==
    IF ~pool.given THEN {}
    ELSE {ent.text : ent \in
            {e \in UNION {{sn[k] : k \in 1..Len(sn)} :
                            sn \in UNION {{d.ner[j] : j \in 1..Len(d.ner)} :
                                            d \in {pool.docs[i] : i \in 1..Len(pool.docs)}}} :
                e.label \in ent_type}}

\* variant: the stripped title is emitted instead of the title
TitleMatchStripped(s, title) ==
    LET stripped_title == StripParen(title)
        start_pos == find(lower(s), lower(stripped_title))
    IN IF start_pos # -1
       THEN <<Mention(stripped_title, start_pos, start_pos + Len(stripped_title), "TITLE")>>
       ELSE << >>

\* lines 31-36: one iteration of the loop over titles
TitleMatch(s, title) ==
    LET stripped_title == StripParen(title)
        start_pos == find(lower(s), lower(stripped_title))
    IN IF start_pos # -1
       THEN <<Mention(title, start_pos, start_pos + Len(stripped_title), "TITLE")>>
       ELSE << >>

\* lines 39-44: one iteration of the loop over candidates
ContextMatch(s, cand) ==
    LET word == StripParen(cand)
        start_pos == find(lower(s), lower(word))
        end_pos == start_pos + Len(word)
    IN IF start_pos # -1
       THEN <<Mention(Slice(s, start_pos, end_pos), start_pos, end_pos, "CONTEXT")>>
       ELSE << >>

RECURSIVE MatchTitles(_, _)
MatchTitles(s, ts) ==
    IF ts = << >> THEN << >> ELSE TitleMatch(s, Head(ts)) \o MatchTitles(s, Tail(ts))

RECURSIVE MatchWords(_, _)
MatchWords(s, ws) ==
    IF ws = << >> THEN << >> ELSE ContextMatch(s, Head(ws)) \o MatchWords(s, Tail(ws))

\* words: the candidate set in the order the set happens to be iterated in
extract_ner_from_titles(s, ts, words) == MatchTitles(s, ts) \o MatchWords(s, words)

Orderings(S) ==
    {w \in [1..Cardinality(S) -> S] : \A i, j \in 1..Cardinality(S) : (i # j) => w[i] # w[j]}

Extract ==
    /\ xpc = "call"
    /\ \E words \in Orderings(Candidates(context_ners)) :
          matched' = extract_ner_from_titles(sent, titles, words)
    /\ xpc' = "returned"
    /\ UNCHANGED <<sent, titles, context_ners>>

(***************************************************************************)
(* Inputs of extract_ner_from_titles.                                      *)
(***************************************************************************)
SentChars == {"a", "A", "Idot"}

TitleChars == {"A", "Idot", " ", "(", ")"}

Titles == SeqsUpTo(TitleChars, MaxTitleLen)

OtherTitle == <<"a", "a">>

TitleLists ==
    {<< >>} \cup {<<t>> : t \in Titles} \cup {<<OtherTitle, t>> : t \in Titles}

NoPool == [given |-> FALSE, docs |-> << >>]

PoolOf(ner) == [given |-> TRUE, docs |-> <<[title |-> OtherTitle, ner |-> ner]>>]

Pools ==
    { NoPool,
      PoolOf(<< <<Mention(<<"A">>, 0, 1, "PERSON"),
                  Mention(<<"Idot">>, 0, 1, "DATE")>> >>),
      PoolOf(<< <<Mention(<<"a", "A">>, 0, 2, "ORG")>>,
                << >>,
                <<Mention(<<"A", " ", "(", "a", ")">>, 0, 5, "GPE"),
                  Mention(<<"a", "a">>, 0, 2, "TITLE")>> >>) }

(***************************************************************************)
(* extract_context_ner, lines 74-90, for one case.                         *)
(***************************************************************************)
\* titles = list(dict(case_context).keys()): first occurrences, in order
RECURSIVE DictKeys(_, _)
DictKeys(ctx, seen) ==
    IF ctx = << >> THEN seen
    ELSE IF \E i \in 1..Len(seen) : seen[i] = Head(ctx).title
         THEN DictKeys(Tail(ctx), seen)
         ELSE DictKeys(Tail(ctx), Append(seen, Head(ctx).title))

\* lines 84-86: the tagger's mentions of one sentence, filtered by type
RECURSIVE FilterNer(_)
FilterNer(sent_ner) ==
    IF sent_ner = << >> THEN << >>
    ELSE (IF Head(sent_ner).label \in ent_type THEN <<Head(sent_ner)>> ELSE << >>)
         \o FilterNer(Tail(sent_ner))

\* lines 82-88: zip(sents, text_ner) stops at the end of the shorter list
RECURSIVE ZipSents(_, _, _)
ZipSents(sents, text_ner, ts) ==
    IF sents = << >> \/ text_ner = << >> THEN << >>
    ELSE <<FilterNer(Head(text_ner)) \o extract_ner_from_titles(Head(sents), ts, << >>)>>
         \o ZipSents(Tail(sents), Tail(text_ner), ts)

RECURSIVE ContextLoop(_, _, _)
ContextLoop(ctx, nd, ts) ==
    IF ctx = << >> THEN [ok |-> TRUE, out |-> << >>]
    ELSE IF Head(ctx).title \notin DOMAIN nd
    THEN [ok |-> FALSE, out |-> << >>]     \* ner_data[title]: KeyError
    ELSE LET rest == ContextLoop(Tail(ctx), nd, ts)
         IN [ok |-> rest.ok,
             out |-> <<[title |-> Head(ctx).title,
                        ner |-> ZipSents(Head(ctx).sents, nd[Head(ctx).title], ts)]>>
                     \o rest.out]

extract_context_ner(ctx, nd) == ContextLoop(ctx, nd, DictKeys(ctx, << >>))

\* the script, lines 100-123: the result is dumped unless an exception
\* ended the script before
Align ==
    /\ apc = "call"
    /\ LET res == extract_context_ner(case_context, ner_data)
       IN IF res.ok
          THEN /\ context_guid2ner' = res.out
               /\ apc' = "emitted"
          ELSE /\ context_guid2ner' = << >>
               /\ apc' = "failed"
    /\ UNCHANGED <<case_context, ner_data>>

(***************************************************************************)
(* Inputs of extract_context_ner.                                          *)
(***************************************************************************)
TitleP == <<"A", " ", "(", "a", ")">>

TitleQ == <<"a", "a">>

AlignSents == { <<"a">>, <<"Idot", "A">> }

TaggerMentions ==
    { Mention(<<"a">>, 0, 1, "PERSON"), Mention(<<"A">>, 0, 1, "DATE") }

TextNers == SeqsUpTo(SeqsUpTo(TaggerMentions, MaxNer), MaxSents)

DocQ == [title |-> TitleQ, sents |-> << <<"a">> >>]

NerQ == << <<Mention(<<"a">>, 0, 1, "DATE"), Mention(<<"a">>, 0, 1, "GPE")>> >>

Contexts ==
    UNION {{ <<[title |-> TitleP, sents |-> ss]>>,
             <<DocQ, [title |-> TitleP, sents |-> ss]>> } :
           ss \in SeqsUpTo(AlignSents, MaxSents)}

NerDatas ==
    {[t \in {TitleQ} |-> NerQ]}
    \cup {[t \in {TitleP, TitleQ} |-> IF t = TitleP THEN tn ELSE NerQ] :
             tn \in TextNers}

(***************************************************************************)
(* Specifications.                                                         *)
(***************************************************************************)
\* stage 1: store_contents runs against one save_path; stage 2 is not run
Init ==
    /\ destKind \in {"absent", "dir"}
    /\ tableExists = FALSE
    /\ durable = << >>
    /\ pc = "idle"
    /\ err = "none"
    /\ table = << >>
    /\ files = << >>
    /\ task = << >>
    /\ outq = << >>
    /\ order = << >>
    /\ count = 0
    /\ commits = 0
    /\ numWorkers = 1
    /\ runs = 0
    /\ sent = << >>
    /\ titles = << >>
    /\ context_ners = NoPool
    /\ matched = << >>
    /\ xpc = "returned"
    /\ case_context = << >>
    /\ ner_data = << >>
    /\ context_guid2ner = << >>
    /\ apc = "emitted"

\* stage 2: a call of extract_ner_from_titles on given arguments
InitExtract ==
    /\ destKind = "absent"
    /\ tableExists = FALSE
    /\ durable = << >>
    /\ pc = "idle"
    /\ err = "none"
    /\ table = << >>
    /\ files = << >>
    /\ task = << >>
    /\ outq = << >>
    /\ order = << >>
    /\ count = 0
    /\ commits = 0
    /\ numWorkers = 1
    /\ runs = 0
    /\ sent \in SeqsUpTo(SentChars, MaxSentLen)
    /\ titles \in TitleLists
    /\ context_ners \in Pools
    /\ matched = << >>
    /\ xpc = "call"
    /\ case_context = << >>
    /\ ner_data = << >>
    /\ context_guid2ner = << >>
    /\ apc = "emitted"

\* stage 2: extract_context_ner on a given case and given ner_data
InitAlign ==
    /\ destKind = "absent"
    /\ tableExists = FALSE
    /\ durable = << >>
    /\ pc = "idle"
    /\ err = "none"
    /\ table = << >>
    /\ files = << >>
    /\ task = << >>
    /\ outq = << >>
    /\ order = << >>
    /\ count = 0
    /\ commits = 0
    /\ numWorkers = 1
    /\ runs = 0
    /\ sent = << >>
    /\ titles = << >>
    /\ context_ners = NoPool
    /\ matched = << >>
    /\ xpc = "returned"
    /\ case_context \in Contexts
    /\ ner_data \in NerDatas
    /\ context_guid2ner = << >>
    /\ apc = "call"

Next ==
    \/ /\ \E rootKind \in {"file", "dir", "invalid"}, nf \in 0..MaxFiles,
             nw \in 1..MaxWorkers : StartRun(rootKind, nf, nw)
       /\ UNCHANGED <<extractVars, alignVars>>
    \/ /\ \E i \in 1..MaxFiles : WorkerTake(i)
       /\ UNCHANGED <<extractVars, alignVars>>
    \/ /\ \E i \in 1..MaxFiles : WorkerFinish(i)
       /\ UNCHANGED <<extractVars, alignVars>>
    \/ MainNext /\ UNCHANGED <<extractVars, alignVars>>
    \/ Commit /\ UNCHANGED <<extractVars, alignVars>>
    \/ Exit /\ UNCHANGED <<extractVars, alignVars>>

Spec == Init /\ [][Next]_vars

NextExtract == Extract /\ UNCHANGED <<ingestVars, alignVars>>

SpecExtract == InitExtract /\ [][NextExtract]_vars

NextAlign == Align /\ UNCHANGED <<ingestVars, extractVars>>

SpecAlign == InitAlign /\ [][NextAlign]_vars

(***************************************************************************)
(* Vocabulary of the ingestion properties.                                 *)
(***************************************************************************)
\* canonical composition: the inverse view of canonical equivalence
RECURSIVE Compose(_)
Compose(s) ==
    IF s = << >> THEN << >>
    ELSE IF Len(s) >= 2 /\ s[1] = "e" /\ s[2] = "acute"
         THEN <<"eacute">> \o Compose(Tail(Tail(s)))
         ELSE <<Head(s)>> \o Compose(Tail(s))

CanonEq(s, t) == Compose(s) = Compose(t)

Front(s) == SubSeq(s, 1, Len(s) - 1)

\* the first line of a batch that stops get_contents, "none" if no line does
FirstFault(lines) ==
    LET bad == {k \in 1..Len(lines) :
                   \/ lines[k].kind = "badline"
                   \/ lines[k].kind = "doc" /\ lines[k].nText # lines[k].nLinks}
    IN IF bad = {} THEN "none"
       ELSE LET k == CHOOSE m \in bad : \A n \in bad : m <= n
            IN IF lines[k].kind = "badline" THEN "badline" ELSE "mismatch"

\* the records of a batch that survive the filter, as stored rows
Surviving(lines) ==
    LET keep == SelectSeq(lines, LAMBDA l : l.kind = "doc")
    IN [k \in 1..Len(keep) |-> [id |-> keep[k].id, sent_num |-> keep[k].nText]]

\* rows of the batches in ord, batch after batch, each batch whole
RECURSIVE WholeBatches(_)
WholeBatches(ord) ==
    IF ord = << >> THEN << >>
    ELSE (IF FirstFault(files[Head(ord)]) = "none"
          THEN Surviving(files[Head(ord)]) ELSE << >>) \o WholeBatches(Tail(ord))

SameRows(tbl, raw) ==
    /\ Len(tbl) = Len(raw)
    /\ \A k \in 1..Len(tbl) :
          CanonEq(tbl[k].id, raw[k].id) /\ tbl[k].sent_num = raw[k].sent_num

UniqueIds(tbl) ==
    \A i, j \in 1..Len(tbl) : (i # j) => ~CanonEq(tbl[i].id, tbl[j].id)

Collides(raw) ==
    \E i, j \in 1..Len(raw) : i # j /\ CanonEq(raw[i].id, raw[j].id)

\* a run that got past the precondition check and opened the store
Opened == runs > 0 /\ err \notin {"exists", "open"}

InRun == Opened /\ pc # "idle"

(***************************************************************************)
(* C1: a store_contents run started when save_path already exists fails    *)
(* at once: no table is created, no worker starts, no row is inserted and  *)
(* the rows of the existing store stay as they are.                        *)
(***************************************************************************)
C1_RejectExisting ==
    /\ [][(pc = "idle" /\ pc' # "idle" /\ destKind # "absent")
            => /\ pc' = "failed"
               /\ err' \in {"exists", "open"}
               /\ task' = << >>
               /\ UNCHANGED <<destKind, tableExists, durable, table>>]_vars
    /\ []((err \in {"exists", "open"})
            => (task = << >> /\ table = durable /\ commits = 0))

C1_Witness ==
    /\ runs >= 2
    /\ pc = "failed"
    /\ err = "exists"
    /\ durable # << >>

(***************************************************************************)
(* C2: the store never holds two rows whose ids are canonically            *)
(* equivalent; the second of two such records raises a duplicate-key error *)
(* that ends the run without a commit, and the rows already present keep   *)
(* their place and content.                                                *)
(***************************************************************************)
C2_OneRowPerId ==
    /\ UniqueIds(table)
    /\ UniqueIds(durable)
    /\ InRun =>
          LET raw == WholeBatches(order)
          IN /\ \E n \in 0..Len(raw) : SameRows(table, SubSeq(raw, 1, n))
             /\ Collides(raw) => (pc = "failed" /\ err = "dupkey"
                                   /\ commits = 0 /\ durable = << >>)

C2_Witness ==
    /\ pc = "failed"
    /\ err = "dupkey"
    /\ Len(order) = 2
    /\ \E k \in 1..Len(table) : table[k].id = <<"e", "acute">>

(***************************************************************************)
(* C3 as stated: once the assertion on len(text) = len(text_with_links)    *)
(* has failed, no row has been stored.                                     *)
(***************************************************************************)
C3_Original == (InRun /\ err = "assert") => (table = << >>)

(***************************************************************************)
(* C3 amended: a batch whose first faulty line is a length mismatch raises *)
(* an assertion failure that ends the run; no row of that batch is ever    *)
(* inserted and the run commits nothing.  Rows of batches received before  *)
(* it may already be in the table.                                         *)
(***************************************************************************)
C3_AssertBeforeBatchRows ==
    InRun =>
      /\ \A k \in 1..Len(order) :
            (FirstFault(files[order[k]]) = "mismatch")
               => (k = Len(order) /\ pc = "failed" /\ err = "assert")
      /\ (err = "assert")
            => /\ pc = "failed"
               /\ order # << >>
               /\ FirstFault(files[order[Len(order)]]) = "mismatch"
               /\ SameRows(table, WholeBatches(Front(order)))
               /\ commits = 0
               /\ durable = << >>

C3_Witness ==
    /\ pc = "failed"
    /\ err = "assert"
    /\ table # << >>

(***************************************************************************)
(* C4 as stated: when data_path is neither a file nor a directory the run  *)
(* fails before the store or its table is created.                         *)
(***************************************************************************)
C4_Original == (err = "path") => (destKind = "absent" /\ ~tableExists)

(***************************************************************************)
(* C8: a run commits at most once, and only after every batch has been     *)
(* received and inserted; a run that ends with an exception never commits, *)
(* so none of its rows is durable.                                         *)
(***************************************************************************)
C8_CommitLast ==
    /\ commits <= 1
    /\ (commits = 1)
          => /\ err = "none"
             /\ Len(order) = Len(task)
             /\ \A i \in 1..Len(task) :
                   task[i] = "consumed" /\ FirstFault(files[i]) = "none"
             /\ SameRows(durable, WholeBatches(order))
    /\ (Opened /\ commits = 0) => (durable = << >>)
    /\ (err # "none") => (commits = 0)

C8_Witness ==
    /\ pc = "done"
    /\ commits = 1
    /\ Len(order) = 2
    /\ Len(durable) = 2

(***************************************************************************)
(* C9 as stated: in every state the table is a concatenation of whole      *)
(* batches.                                                                *)
(***************************************************************************)
C9_Original ==
    InRun => \E n \in 0..Len(order) :
                SameRows(table, WholeBatches(SubSeq(order, 1, n)))

(***************************************************************************)
(* C9 amended: only the main loop writes to the table; the table is the    *)
(* concatenation of the batches received so far, each batch whole and in   *)
(* the order its worker produced it - except that a batch whose insertion  *)
(* hits a duplicate key leaves the rows that precede the duplicate as the  *)
(* last, partial segment of the aborted run.                               *)
(***************************************************************************)
C9_BatchSegments ==
    /\ [](InRun =>
            IF err = "dupkey"
            THEN LET last == WholeBatches(<<order[Len(order)]>>)
                 IN \E n \in 0..(Len(last) - 1) :
                       /\ SameRows(table, WholeBatches(Front(order))
                                            \o SubSeq(last, 1, n))
                       /\ \E k \in 1..Len(table) :
                             CanonEq(table[k].id, last[n + 1].id)
            ELSE IF err # "none"
            THEN SameRows(table, WholeBatches(Front(order)))
            ELSE SameRows(table, WholeBatches(order)))
    /\ [][(table' # table)
            => (pc = "idle" \/ pc' = "idle" \/ Len(order') = Len(order) + 1)]_vars

C9_Witness ==
    /\ pc = "pool"
    /\ Len(order) = 2
    /\ order[1] = 2
    /\ Len(table) = 2

(***************************************************************************)
(* Vocabulary of the stage-2 properties.                                   *)
(***************************************************************************)
OccursAt(s, sub, i) ==
    /\ i + Len(sub) <= Len(s)
    /\ \A k \in 1..Len(sub) : s[i + k] = sub[k]

\* i is the 0-based index of the first case-insensitive occurrence of sub in s
FirstOccurrence(s, sub, i) ==
    /\ OccursAt(lower(s), lower(sub), i)
    /\ \A j \in 0..(i - 1) : ~OccursAt(lower(s), lower(sub), j)

Emitted(m) == \E k \in 1..Len(matched) : matched[k] = m

CountMismatch ==
    \E d \in 1..Len(case_context) :
       /\ case_context[d].title \in DOMAIN ner_data
       /\ Len(case_context[d].sents) # Len(ner_data[case_context[d].title])

ExcludedTypes ==
    {"DATE", "TIME", "PERCENT", "MONEY", "QUANTITY", "ORDINAL", "CARDINAL"}

(***************************************************************************)
(* C5 as stated: a title with a trailing parenthetical whose stripped form *)
(* occurs in the sentence yields a TITLE mention whose text is the         *)
(* stripped title, from the first occurrence to that plus the stripped     *)
(* title's length.                                                         *)
(***************************************************************************)
C5_Original ==
    (xpc = "returned") =>
       \A k \in 1..Len(titles) :
          LET stripped == StripParen(titles[k])
          IN \A i \in 0..Len(lower(sent)) :
                (stripped # titles[k] /\ FirstOccurrence(sent, stripped, i))
                   => Emitted(Mention(stripped, i, i + Len(stripped), "TITLE"))

(***************************************************************************)
(* C5 amended: such a title yields a TITLE mention whose text is the       *)
(* title as given, parenthetical included; start is the index of the first *)
(* occurrence of the lowercased stripped title in the lowercased sentence  *)
(* and end is start plus the length of the stripped title.                 *)
(***************************************************************************)
C5_TitleKept ==
    (xpc = "returned") =>
       \A k \in 1..Len(titles) :
          LET stripped == StripParen(titles[k])
          IN \A i \in 0..Len(lower(sent)) :
                (stripped # titles[k] /\ FirstOccurrence(sent, stripped, i))
                   => Emitted(Mention(titles[k], i, i + Len(stripped), "TITLE"))

C5_Witness ==
    /\ xpc = "returned"
    /\ sent = <<"a", "A">>
    /\ titles = << <<"A", " ", "(", ")">> >>
    /\ Emitted(Mention(<<"A", " ", "(", ")">>, 0, 1, "TITLE"))

(***************************************************************************)
(* C10 as stated: every mention returned by extract_ner_from_titles has    *)
(* 0 <= start < end <= len(sentence).                                      *)
(***************************************************************************)
C10_Original ==
    (xpc = "returned") =>
       \A k \in 1..Len(matched) :
          /\ 0 <= matched[k].start
          /\ matched[k].start < matched[k].end
          /\ matched[k].end <= Len(sent)

(***************************************************************************)
(* C6 as stated: a context document whose number of sentences differs from *)
(* the number of entries of ner_data[title]['text_ner'] makes the run fail *)
(* without output.                                                         *)
(***************************************************************************)
C6_Original ==
    (apc # "call" /\ CountMismatch) => (apc = "failed" /\ context_guid2ner = << >>)

(***************************************************************************)
(* C7: each emitted per-sentence list is the tagger's mentions of that     *)
(* sentence without those of an excluded (numeric or temporal) type, in    *)
(* their order, followed by the title matches of the sentence; no mention  *)
(* of an excluded type is emitted.                                         *)
(***************************************************************************)
C7_FilteredThenTitles ==
    (apc = "emitted") =>
       /\ Len(context_guid2ner) = Len(case_context)
       /\ \A d \in 1..Len(context_guid2ner) :
             LET doc == case_context[d]
                 out == context_guid2ner[d].ner
                 all == [i \in 1..Len(case_context) |-> case_context[i].title]
             IN /\ context_guid2ner[d].title = doc.title
                /\ Len(out) <= Len(doc.sents)
                /\ Len(out) <= Len(ner_data[doc.title])
                /\ \A k \in 1..Len(out) :
                      /\ out[k] = SelectSeq(ner_data[doc.title][k],
                                            LAMBDA m : m.label \notin ExcludedTypes)
                                  \o MatchTitles(doc.sents[k], all)
                      /\ \A n \in 1..Len(out[k]) : out[k][n].label \notin ExcludedTypes

C7_Witness ==
    /\ apc = "emitted"
    /\ Len(case_context) = 2
    /\ TitleP \in DOMAIN ner_data
    /\ Len(ner_data[TitleP]) = 1
    /\ Len(case_context[2].sents) = 1
    /\ ner_data[TitleP][1] = <<Mention(<<"A">>, 0, 1, "DATE"),
                               Mention(<<"a">>, 0, 1, "PERSON")>>
    /\ case_context[2].sents[1] = <<"a">>
    /\ context_guid2ner[2].ner[1] =
          <<Mention(<<"a">>, 0, 1, "PERSON"), Mention(TitleP, 0, 1, "TITLE")>>

====
